---- MODULE Spec2Model ----
(***************************************************************************)
(* Model of the live trace store of planoai (cli/planoai/trace_cmd.py):    *)
(* _TraceStore (grouping of spans by parent/child links, per-group span    *)
(* cap, least-recently-touched eviction), the OTLP Export servicer that    *)
(* feeds it and the query handler that serves snapshots of it.             *)
(***************************************************************************)
EXTENDS Integers, Sequences, FiniteSets, TLC

(***************************************************************************)
(* Bounds of the model and (scaled) program constants.                     *)
(***************************************************************************)
\* MAX_TRACES = 50 in the source; the default of _TraceStore(max_traces).
MAX_TRACES == 2
\* MAX_SPANS_PER_TRACE = 500 in the source.
MAX_SPANS_PER_TRACE == 2
\* Number of merge_spans calls explored.
MaxCalls == 4
\* Number of spans of one Export request in the concurrent specification.
MaxBatch == 2

\* Wire trace ids (span.trace_id.hex(), never empty when Export passes it on).
WireIds == {"w1", "w2", "w3"}
\* Span ids (span.span_id.hex()); "" is an absent id.
SpanIds == {"", "a", "b", "c"}
\* Python's None for a group key that is not yet determined.
None == "None"

\* The span dicts built by _proto_span_to_dict, reduced to the fields the
\* store reads (spanId, parentSpanId) and the wire trace id it carries.
SpanDicts == [traceId : WireIds, spanId : SpanIds, parentSpanId : SpanIds]

(***************************************************************************)
(* dict and OrderedDict helpers.                                           *)
(***************************************************************************)
\* d[k] = v
DictSet(d, k, v) == [x \in DOMAIN d \cup {k} |-> IF x = k THEN v ELSE d[x]]
\* d.pop(k, None) for every k in ks
DictPop(d, ks) == [x \in DOMAIN d \ ks |-> d[x]]
\* the empty dict
EmptyDict == [x \in {} |-> None]

\* keys of the OrderedDict _traces (a sequence of groups, oldest first)
Keys(tr) == {tr[i].trace_id : i \in DOMAIN tr}
IndexOf(tr, k) == CHOOSE i \in DOMAIN tr : tr[i].trace_id = k
RemoveAt(s, i) == SubSeq(s, 1, i - 1) \o SubSeq(s, i + 1, Len(s))
\* a store that forgets to mark the group as most recently used
move_to_end_Forgotten(tr, k) == tr
\* OrderedDict.move_to_end(k)
move_to_end(tr, k) == RemoveAt(tr, IndexOf(tr, k)) \o <<tr[IndexOf(tr, k)]>>
\* the span ids of a list of span dicts
SpanIdsOf(spans) == {spans[i].spanId : i \in DOMAIN spans}

(***************************************************************************)
(* _TraceStore.  A store value st is the record of its four containers.    *)
(***************************************************************************)
EmptyStore ==
    [traces |-> <<>>, seen_spans |-> EmptyDict,
     span_to_group |-> EmptyDict, parent_to_group |-> EmptyDict]

\* _TraceStore._evict_oldest
_evict_oldest(st) ==
    IF st.traces = <<>> THEN st
    ELSE LET oldest == Head(st.traces)
             sids == SpanIdsOf(oldest.spans)
         IN [traces |-> Tail(st.traces),
             seen_spans |-> DictPop(st.seen_spans, {oldest.trace_id}),
             span_to_group |-> DictPop(st.span_to_group, sids),
             parent_to_group |-> DictPop(st.parent_to_group, sids)]

\* the loop of _merge_groups over src["spans"]: the spans appended to dst
RECURSIVE MergeAppend(_, _, _)
MergeAppend(src_spans, dst_spans, dst_seen) ==
    IF src_spans = <<>> THEN [spans |-> dst_spans, seen |-> dst_seen]
    ELSE LET span == Head(src_spans)
             sid == span.spanId
         IN IF sid # "" /\ sid \notin dst_seen
            THEN MergeAppend(Tail(src_spans), Append(dst_spans, span),
                             dst_seen \cup {sid})
            ELSE MergeAppend(Tail(src_spans), dst_spans, dst_seen)

\* _TraceStore._merge_groups
_merge_groups(st, src_key, dst_key) ==
    IF src_key = dst_key \/ src_key \notin Keys(st.traces) THEN st
    ELSE LET src == st.traces[IndexOf(st.traces, src_key)]
             tr1 == RemoveAt(st.traces, IndexOf(st.traces, src_key))
             di == IndexOf(tr1, dst_key)
             src_seen == st.seen_spans[src_key]
             m == MergeAppend(src.spans, tr1[di].spans, st.seen_spans[dst_key])
             moved == SpanIdsOf(src.spans) \cup src_seen
         IN [traces |-> [tr1 EXCEPT ![di].spans = m.spans],
             seen_spans |->
                 DictSet(DictPop(st.seen_spans, {src_key}), dst_key, m.seen),
             span_to_group |->
                 [x \in DOMAIN st.span_to_group \cup moved |->
                     IF x \in moved THEN dst_key ELSE st.span_to_group[x]],
             parent_to_group |->
                 [x \in DOMAIN st.parent_to_group |->
                     IF st.parent_to_group[x] = src_key THEN dst_key
                     ELSE st.parent_to_group[x]]]

\* merge_spans, "Determine which group this span belongs to": the key found
\* through the parent (1.), through an awaiting child (2.) or the wire id (3.)
ParentResident(st, span) ==
    span.parentSpanId # "" /\ span.parentSpanId \in DOMAIN st.span_to_group
AwaitedParent(st, span) ==
    /\ ~ParentResident(st, span)
    /\ span.spanId # "" /\ span.spanId \in DOMAIN st.parent_to_group
\* a store that does not look the parent up (no forward link)
GroupKey_NoParentLookup(st, trace_id, span) ==
    IF AwaitedParent(st, span) THEN st.parent_to_group[span.spanId]
    ELSE trace_id
\* a store that asks first whether the span itself is awaited (steps 1. and
\* 2. swapped)
GroupKey_AwaitedFirst(st, trace_id, span) ==
    IF span.spanId # "" /\ span.spanId \in DOMAIN st.parent_to_group
    THEN st.parent_to_group[span.spanId]
    ELSE IF ParentResident(st, span) THEN st.span_to_group[span.parentSpanId]
    ELSE trace_id
GroupKey(st, trace_id, span) ==
    IF ParentResident(st, span) THEN st.span_to_group[span.parentSpanId]
    ELSE IF AwaitedParent(st, span) THEN st.parent_to_group[span.spanId]
    ELSE trace_id

\* merge_spans, step 2's pop of the awaited-parent entry
Resolve(st, span) ==
    IF AwaitedParent(st, span)
    THEN [st EXCEPT !.parent_to_group = DictPop(@, {span.spanId})]
    ELSE st

\* a store that evicts only when it holds more than max_traces groups
EnsureGroup_OffByOne(st, group_key) ==
    IF group_key \notin Keys(st.traces)
    THEN LET s1 == IF Len(st.traces) > MAX_TRACES THEN _evict_oldest(st)
                   ELSE st
         IN [s1 EXCEPT
                !.traces = Append(@, [trace_id |-> group_key, spans |-> <<>>]),
                !.seen_spans = DictSet(@, group_key, {})]
    ELSE [st EXCEPT !.traces = move_to_end(@, group_key)]
\* merge_spans, "Create the group if needed"
EnsureGroup(st, group_key) ==
    IF group_key \notin Keys(st.traces)
    THEN LET s1 == IF Len(st.traces) >= MAX_TRACES THEN _evict_oldest(st)
                   ELSE st
         IN [s1 EXCEPT
                !.traces = Append(@, [trace_id |-> group_key, spans |-> <<>>]),
                !.seen_spans = DictSet(@, group_key, {})]
    ELSE [st EXCEPT !.traces = move_to_end(@, group_key)]

\* a store that never recognises a span it has seen
Deduplicated_Never(st, group_key, span) == FALSE
\* merge_spans, "Insert span (deduplicate)": whether the span is skipped
Deduplicated(st, group_key, span) ==
    span.spanId # "" /\ span.spanId \in st.seen_spans[group_key]

\* merge_spans, the insertion of a span that is not a duplicate
Insert(st, group_key, span) ==
    LET gi == IndexOf(st.traces, group_key)
        s1 == IF span.spanId # ""
              THEN [st EXCEPT
                      !.seen_spans[group_key] = @ \cup {span.spanId},
                      !.span_to_group = DictSet(@, span.spanId, group_key)]
              ELSE st
    IN IF Len(s1.traces[gi].spans) < MAX_SPANS_PER_TRACE
       THEN [s1 EXCEPT !.traces[gi].spans = Append(@, span)]
       ELSE s1

\* merge_spans, "Record parent link so future spans can find this group"
RecordParent(st, group_key, span) ==
    IF span.parentSpanId # "" /\ span.parentSpanId \notin DOMAIN st.span_to_group
    THEN [st EXCEPT !.parent_to_group = DictSet(@, span.parentSpanId, group_key)]
    ELSE st

\* merge_spans, the final merge of a group that awaited this span
MergeCheck(st, group_key, span) ==
    IF span.spanId # "" /\ span.spanId \in DOMAIN st.parent_to_group
    THEN LET other == st.parent_to_group[span.spanId]
             s1 == [st EXCEPT !.parent_to_group = DictPop(@, {span.spanId})]
         IN IF other # group_key /\ other \in Keys(s1.traces)
            THEN _merge_groups(s1, other, group_key)
            ELSE s1
    ELSE st

\* merge_spans, the body of its loop for one span, from the store s1 in
\* which the chosen group exists: whether the span is skipped as a duplicate
\* and the store when the iteration ends (post)
MergeFrom(s1, group_key, span) ==
    [group_key |-> group_key,
     ensured |-> s1,
     dedup |-> Deduplicated(s1, group_key, span),
     post |-> IF Deduplicated(s1, group_key, span) THEN s1
              ELSE MergeCheck(RecordParent(Insert(s1, group_key, span),
                                           group_key, span),
                              group_key, span)]
MergeRun(st, trace_id, span) ==
    MergeFrom(EnsureGroup(Resolve(st, span), GroupKey(st, trace_id, span)),
              GroupKey(st, trace_id, span), span)
MergeOne(st, trace_id, span) == MergeRun(st, trace_id, span).post

\* _TraceStore.merge_spans(trace_id, spans), under the lock
RECURSIVE merge_spans(_, _, _)
merge_spans(st, trace_id, spans) ==
    IF spans = <<>> THEN st
    ELSE merge_spans(MergeOne(st, trace_id, Head(spans)), trace_id, Tail(spans))

(***************************************************************************)
(* State.                                                                  *)
(***************************************************************************)
VARIABLES
    store,        \* _TRACE_STORE: traces, seen_spans, span_to_group, parent_to_group
    ncalls,       \* number of merge_spans calls made so far
    last,         \* history: the last merge_spans call, its span and what it did
    touch_route,  \* history: group keys, least recently routed-to first
    touch_ins,    \* history: group keys, least recently inserted-into first
    known,        \* history: the spans sent so far, by span id
    anon_sent,    \* history: whether a span without span id was sent
    lock,         \* _TraceStore._lock: the thread that holds it, or Free
    pc,           \* where each thread of the server's pool is in its handler
    sent,         \* per Export call, the spans of its request merged so far
    traces_ref,   \* the list `traces` of snapshot() / _get_traces
    response,     \* the set holding the payload _get_traces returned
    instants,     \* history: the contents of the store since the snapshot
    progress,     \* history: sent, when the snapshot was taken
    routed,       \* history: per group, the spans merge_spans routed to it
    export,       \* history: the last Export call, its answer and its duty
    matching,     \* a call of _matches_pattern: value, pattern and the set
                  \* holding its result once it returned
    show,         \* a run of `trace show`: the snapshot fetched, the
                  \* options, the clock, and the sets holding the result of
                  \* _filter_traces and the outcome of the command
    listener,     \* the listener's port, the grpc server _create_trace_server
                  \* started and what the last attempt to start one raised
    runtime       \* the PID file, the listener process it names, and where
                  \* a call of stop_listener_process is, with the signals
                  \* it delivered and the set holding what it returned

seqvars == <<store, ncalls, last, touch_route, touch_ins, known, anon_sent>>
concvars == <<lock, pc, sent, traces_ref, response, instants, progress>>
vars == <<store, ncalls, last, touch_route, touch_ins, known, anon_sent,
          lock, pc, sent, traces_ref, response, instants, progress, routed,
          export, matching, show, listener, runtime>>

\* The threads of the pool that run a handler: two Export calls and one
\* GetTraces call.
Exporters == {"e1", "e2"}
Querier == "q"
Free == "free"

\* The spans an exporter sends: a span is never its own parent; its id may
\* be absent.
Inputs == {x \in SpanDicts : x.spanId = "" \/ x.spanId # x.parentSpanId}

\* A span is immutable: a span id that is sent again comes with the same
\* wire trace id and the same parent, and the parent links form a forest.
\* At most one span without id is sent.
RECURSIVE Ancestors(_, _, _)
Ancestors(k, sid, n) ==
    IF n = 0 \/ sid \notin DOMAIN k \/ k[sid].parentSpanId = "" THEN {}
    ELSE {k[sid].parentSpanId} \cup Ancestors(k, k[sid].parentSpanId, n - 1)
Forest(k) == \A sid \in DOMAIN k : sid \notin Ancestors(k, sid, Cardinality(SpanIds))
Sent(k, span) == IF span.spanId = "" THEN k ELSE DictSet(k, span.spanId, span)
Sendable(span) ==
    IF span.spanId = "" THEN ~anon_sent
    ELSE IF span.spanId \in DOMAIN known THEN known[span.spanId] = span
    ELSE Forest(Sent(known, span))

NoCall ==
    [span |-> [traceId |-> "", spanId |-> "", parentSpanId |-> ""],
     group_key |-> None, created |-> FALSE, evicted |-> {}, dedup |-> FALSE]

\* What one merge_spans(trace_id, [span]) call did to the store st.
Outcome(st, span, run) ==
    [span |-> span,
     group_key |-> run.group_key,
     created |-> run.group_key \notin Keys(st.traces),
     evicted |-> Keys(st.traces) \ Keys(run.ensured.traces),
     dedup |-> run.dedup]

\* A touch order after the groups in gone left the store and key was touched.
RECURSIVE Without(_, _)
Without(order, gone) ==
    IF order = <<>> THEN <<>>
    ELSE IF Head(order) \in gone THEN Without(Tail(order), gone)
    ELSE <<Head(order)>> \o Without(Tail(order), gone)
Touched(order, gone, key) == Append(Without(order, gone \cup {key}), key)

\* No listener: the port is free, no server was created, nothing raised.
NoRaise == [kind |-> "", message |-> ""]
NoListener ==
    [port |-> "free", server |-> "none", bound |-> FALSE, raised |-> NoRaise,
     bind_failed |-> FALSE]

\* No PID file, no listener process, no call of stop_listener_process.
NoRuntime ==
    [file |-> "absent", proc |-> "none", pc |-> "idle", signals |-> <<>>,
     result |-> {}, alive_after_grace |-> FALSE, calls |-> 0]

\* The server when it starts: empty store, idle threads.
InitServer ==
    /\ store = EmptyStore
    /\ ncalls = 0
    /\ last = NoCall
    /\ touch_route = <<>>
    /\ touch_ins = <<>>
    /\ known = EmptyDict
    /\ anon_sent = FALSE
    /\ lock = Free
    /\ pc = [t \in Exporters \cup {Querier} |->
               IF t = Querier THEN "idle" ELSE "next"]
    /\ sent = [t \in Exporters |-> 0]
    /\ traces_ref = <<>>
    /\ response = {}
    /\ instants = {}
    /\ progress = [t \in Exporters |-> 0]
    /\ routed = EmptyDict
    /\ export = [response |-> None, expected |-> EmptyStore]
    /\ listener = NoListener
    /\ runtime = NoRuntime

\* No call of _matches_pattern, no run of the show command.
NoMatching == [value |-> <<>>, pattern |-> <<>>, result |-> {}]
NoShow ==
    [traces_raw |-> <<>>, patterns |-> <<>>, where |-> <<>>, since |-> <<>>,
     now |-> 0, filtered |-> {}, out |-> {}]

Init ==
    /\ InitServer
    /\ matching = NoMatching
    /\ show = NoShow

\* Export's call _TRACE_STORE.merge_spans(trace_id, [span_dict]) for one span
\* of a request, with trace_id = span.trace_id.hex() (non-empty): the loop of
\* merge_spans runs once, so the store it leaves is that run's post.
IngestUpTo(span, calls) ==
    /\ ncalls < calls
    /\ Sendable(span)
    /\ ncalls' = ncalls + 1
    /\ known' = Sent(known, span)
    /\ anon_sent' = (anon_sent \/ span.spanId = "")
    /\ \E run \in {MergeRun(store, span.traceId, span)} :
          \E gone \in {Keys(store.traces) \ Keys(run.post.traces)} :
             /\ store' = run.post
             /\ last' = Outcome(store, span, run)
             /\ touch_route' = Touched(touch_route, gone, run.group_key)
             /\ touch_ins' = IF run.dedup THEN Without(touch_ins, gone)
                             ELSE Touched(touch_ins, gone, run.group_key)

Ingest(span) == IngestUpTo(span, MaxCalls)

\* The store on its own: one merge_spans call after the other.
Next ==
    \E span \in Inputs :
       /\ Ingest(span)
       /\ UNCHANGED <<concvars, routed, export, matching, show, listener, runtime>>

Spec == Init /\ [][Next]_vars

\* The store with the record of what merge_spans routed where: for every
\* group of the store, the spans that were routed to it and not skipped as
\* duplicates, in arrival order, since the group was created.
RoutedAfter(r, st, call) ==
    [k \in Keys(st.traces) |->
        LET before == IF k \in DOMAIN r /\ ~(call.created /\ k = call.group_key)
                      THEN r[k] ELSE <<>>
        IN IF k = call.group_key /\ ~call.dedup
           THEN Append(before, call.span)
           ELSE before]

NextRouted ==
    \E span \in Inputs :
       /\ Ingest(span)
       /\ routed' = RoutedAfter(routed, store', last')
       /\ UNCHANGED <<concvars, export, matching, show, listener, runtime>>

SpecRouted == Init /\ [][NextRouted]_vars

\* The store over longer runs of calls, for the spans of one chain of
\* requests: c (wire id w1) is a child of b, b (wire id w2) is a root or a
\* child of a, a is a root or a child of b or d, d (wire id w3) is a root,
\* and a span without id is a root or a child of b or c.
MaxLongCalls == 6
LongSpanIds == SpanIds \cup {"d"}
LongInputs ==
    {x \in [traceId : WireIds, spanId : LongSpanIds, parentSpanId : LongSpanIds] :
        CASE x.spanId = "c" -> x.traceId = "w1" /\ x.parentSpanId = "b"
          [] x.spanId = "b" -> x.traceId = "w2" /\ x.parentSpanId \in {"", "a"}
          [] x.spanId = "a" -> x.parentSpanId \in {"", "b", "d"}
          [] x.spanId = "d" -> x.traceId = "w3" /\ x.parentSpanId = ""
          [] OTHER -> x.parentSpanId \in {"", "b", "c"}}
NextLong ==
    \E span \in LongInputs :
       /\ IngestUpTo(span, MaxLongCalls)
       /\ UNCHANGED <<concvars, routed, export, matching, show, listener, runtime>>

SpecLong == Init /\ [][NextLong]_vars

(***************************************************************************)
(* The server: Export and GetTraces handlers running on pool threads.      *)
(***************************************************************************)
\* snapshot(): list(self._traces.values()), reversed.  The list holds
\* references to the group dicts of the store (live: still the store's dict
\* under that key).
\* a snapshot that forgets traces.reverse()
snapshot_Unreversed(st) ==
    [i \in 1..Len(st.traces) |-> [group |-> st.traces[i], live |-> TRUE]]
snapshot(st) ==
    [i \in 1..Len(st.traces) |->
        [group |-> st.traces[Len(st.traces) + 1 - i], live |-> TRUE]]
\* The referenced group dicts once the store has become st: a dict that is
\* still in _traces is the one merge_spans appends to; a dict that was
\* popped (evicted, or merged away) keeps the content it had.
Deref(refs, st) ==
    [i \in DOMAIN refs |->
        IF refs[i].live /\ refs[i].group.trace_id \in Keys(st.traces)
        THEN [group |-> st.traces[IndexOf(st.traces, refs[i].group.trace_id)],
              live |-> TRUE]
        ELSE [group |-> refs[i].group, live |-> FALSE]]
\* json.dumps({"traces": traces}): the groups as they are when serialized
dumps(refs) == [i \in DOMAIN refs |-> refs[i].group]

\* The spans of the requests the two Export calls handle.
Requested == {x \in Inputs : x.spanId # ""}

\* a store whose merge_spans enters without looking at the lock
ExportAcquire_Unguarded(t) ==
    /\ pc[t] = "next" /\ sent[t] < MaxBatch
    /\ lock' = t
    /\ pc' = [pc EXCEPT ![t] = "locked"]
    /\ UNCHANGED <<seqvars, sent, traces_ref, response, instants, progress>>
\* merge_spans: `with self._lock:`
ExportAcquire(t) ==
    /\ pc[t] = "next" /\ sent[t] < MaxBatch
    /\ lock = Free
    /\ lock' = t
    /\ pc' = [pc EXCEPT ![t] = "locked"]
    /\ UNCHANGED <<seqvars, sent, traces_ref, response, instants, progress>>

\* a merge_spans that returns without releasing the lock
ExportMerge_KeepsLock(t, span) ==
    /\ pc[t] = "locked" /\ lock = t
    /\ Sendable(span)
    /\ store' = merge_spans(store, span.traceId, <<span>>)
    /\ ncalls' = ncalls + 1
    /\ known' = Sent(known, span)
    /\ anon_sent' = (anon_sent \/ span.spanId = "")
    /\ pc' = [pc EXCEPT ![t] = "next"]
    /\ sent' = [sent EXCEPT ![t] = @ + 1]
    /\ IF pc[Querier] = "dumps"
       THEN /\ traces_ref' = Deref(traces_ref, store')
            /\ instants' = instants \cup {dumps(snapshot(store'))}
       ELSE UNCHANGED <<traces_ref, instants>>
    /\ UNCHANGED <<lock, last, touch_route, touch_ins, response, progress>>
\* merge_spans(trace_id, [span_dict]) for the next span of the request, and
\* the release of the lock when it returns
ExportMerge(t, span) ==
    /\ pc[t] = "locked" /\ lock = t
    /\ Sendable(span)
    /\ store' = merge_spans(store, span.traceId, <<span>>)
    /\ ncalls' = ncalls + 1
    /\ known' = Sent(known, span)
    /\ anon_sent' = (anon_sent \/ span.spanId = "")
    /\ lock' = Free
    /\ pc' = [pc EXCEPT ![t] = "next"]
    /\ sent' = [sent EXCEPT ![t] = @ + 1]
    /\ IF pc[Querier] = "dumps"
       THEN /\ traces_ref' = Deref(traces_ref, store')
            /\ instants' = instants \cup {dumps(snapshot(store'))}
       ELSE UNCHANGED <<traces_ref, instants>>
    /\ UNCHANGED <<last, touch_route, touch_ins, response, progress>>

\* Export returns its response once every span of the request is merged
ExportReturn(t) ==
    /\ pc[t] = "next" /\ sent[t] = MaxBatch
    /\ pc' = [pc EXCEPT ![t] = "done"]
    /\ UNCHANGED <<seqvars, lock, sent, traces_ref, response, instants, progress>>

\* snapshot: `with self._lock:`
QueryAcquire ==
    /\ pc[Querier] = "idle"
    /\ lock = Free
    /\ lock' = Querier
    /\ pc' = [pc EXCEPT ![Querier] = "locked"]
    /\ UNCHANGED <<seqvars, sent, traces_ref, response, instants, progress>>

\* snapshot: traces = list(self._traces.values()), release of the lock,
\* traces.reverse(), return
QueryCopy ==
    /\ pc[Querier] = "locked" /\ lock = Querier
    /\ traces_ref' = snapshot(store)
    /\ lock' = Free
    /\ pc' = [pc EXCEPT ![Querier] = "dumps"]
    /\ instants' = {dumps(snapshot(store))}
    /\ progress' = sent
    /\ UNCHANGED <<seqvars, sent, response>>

\* _get_traces: json.dumps of the list snapshot() returned
QueryDumps ==
    /\ pc[Querier] = "dumps"
    /\ response' = {dumps(traces_ref)}
    /\ traces_ref' = <<>>
    /\ pc' = [pc EXCEPT ![Querier] = "done"]
    /\ UNCHANGED <<seqvars, lock, sent, instants, progress>>

NextConc ==
    /\ \/ \E t \in Exporters : ExportAcquire(t)
       \/ \E t \in Exporters : \E span \in Requested : ExportMerge(t, span)
       \/ \E t \in Exporters : ExportReturn(t)
       \/ QueryAcquire
       \/ QueryCopy
       \/ QueryDumps
    /\ UNCHANGED <<routed, export, matching, show, listener, runtime>>

SpecConc == Init /\ [][NextConc]_vars

\* The server under a fair scheduler: every pool thread that can take a
\* step eventually takes one.  The requests carry the spans of one parent
\* and its two children.
FairRequested ==
    {x \in Requested :
        /\ x.traceId = (IF x.spanId = "a" THEN "w1" ELSE "w2")
        /\ x.parentSpanId = (IF x.spanId = "a" THEN "" ELSE "a")}
ExportStep(t) ==
    /\ \/ ExportAcquire(t)
       \/ \E span \in FairRequested : ExportMerge(t, span)
       \/ ExportReturn(t)
    /\ UNCHANGED <<routed, export, matching, show, listener, runtime>>
QueryStep ==
    /\ \/ QueryAcquire
       \/ QueryCopy
       \/ QueryDumps
    /\ UNCHANGED <<routed, export, matching, show, listener, runtime>>
NextFair ==
    \/ \E t \in Exporters : ExportStep(t)
    \/ QueryStep

\* every step of a thread changes its position
schedvars == <<pc, lock, sent>>
SpecFair ==
    /\ Init /\ [][NextFair]_vars
    /\ \A t \in Exporters : WF_schedvars(ExportStep(t))
    /\ WF_schedvars(QueryStep)

(***************************************************************************)
(* _OTLPTraceServicer.Export as a whole, one request after the other.      *)
(***************************************************************************)
\* Span names, as the pieces the console markup parser sees: plain text,
\* an opening tag "[id]" and a closing tag "[/id]" (as in "GET /items[/id]").
Names == {<<"text">>, <<"[id]", "text", "[/id]">>, <<"text", "[/id]">>}
\* The protobuf spans of the requests: trace_id.hex() may be empty.
ProtoSpans ==
    {x \in [trace_id : {"", "w1", "w2"}, span_id : {"a", "b"},
            parent_span_id : {"", "a"}, name : Names] :
        x.span_id # x.parent_span_id}
\* The requests: the spans of all resource_spans / scope_spans, in order.
Requests ==
    {<<>>} \cup {<<x>> : x \in ProtoSpans}
           \cup {<<x, y>> : x \in ProtoSpans, y \in ProtoSpans}

\* _proto_span_to_dict, reduced to the fields the store reads
_proto_span_to_dict(span) ==
    [traceId |-> span.trace_id, spanId |-> span.span_id,
     parentSpanId |-> IF span.parent_span_id # "" THEN span.parent_span_id
                      ELSE ""]

\* The part of the line Export prints that holds the span name:
\* f"[cyan]{span.name}[/cyan] "
ConsoleLine(span) == <<"[cyan]">> \o span.name \o <<"[/cyan]">>
\* Console.print renders the markup of the line: an opening tag is pushed, a
\* closing tag pops the nearest open tag of its name and is an error
\* (MarkupError) when there is none.
OpenTag(piece) == IF piece = "[id]" THEN "id" ELSE IF piece = "[cyan]" THEN "cyan"
                  ELSE None
CloseTag(piece) == IF piece = "[/id]" THEN "id" ELSE IF piece = "[/cyan]" THEN "cyan"
                   ELSE None
RECURSIVE PopStyle(_, _)
PopStyle(stack, tag) ==
    IF stack[Len(stack)] = tag THEN SubSeq(stack, 1, Len(stack) - 1)
    ELSE Append(PopStyle(SubSeq(stack, 1, Len(stack) - 1), tag),
                stack[Len(stack)])
RECURSIVE Renders(_, _)
Renders(line, stack) ==
    IF line = <<>> THEN TRUE
    ELSE IF OpenTag(Head(line)) # None
         THEN Renders(Tail(line), Append(stack, OpenTag(Head(line))))
    ELSE IF CloseTag(Head(line)) # None
         THEN /\ \E i \in DOMAIN stack : stack[i] = CloseTag(Head(line))
              /\ Renders(Tail(line), PopStyle(stack, CloseTag(Head(line))))
    ELSE Renders(Tail(line), stack)

\* Export: the loop over the spans of the request and what the call answers
RECURSIVE Export(_, _)
Export(st, spans) ==
    IF spans = <<>>
    THEN [store |-> st, response |-> "ExportTraceServiceResponse()"]
    ELSE LET span == Head(spans)
         IN IF span.trace_id = "" THEN Export(st, Tail(spans))
            ELSE LET s1 == merge_spans(st, span.trace_id,
                                       <<_proto_span_to_dict(span)>>)
                 IN IF Renders(ConsoleLine(span), <<>>)
                    THEN Export(s1, Tail(spans))
                    ELSE [store |-> s1, response |-> "MarkupError"]

\* What a request is to do to the store: every span with a wire trace id
\* ingested, in request order.
HasTraceId(span) == span.trace_id # ""
RECURSIVE IngestAll(_, _)
IngestAll(st, spans) ==
    IF spans = <<>> THEN st
    ELSE IngestAll(MergeOne(st, Head(spans).trace_id,
                            _proto_span_to_dict(Head(spans))),
                   Tail(spans))

ExportCall(request) ==
    /\ \E done \in {Export(store, request)} :
          /\ store' = done.store
          /\ export' = [response |-> done.response,
                        expected |-> IngestAll(store, SelectSeq(request, HasTraceId))]
    /\ UNCHANGED <<ncalls, last, touch_route, touch_ins, known, anon_sent,
                   concvars, routed, matching, show, listener, runtime>>

NextExport == \E request \in Requests : ExportCall(request)

SpecExport == Init /\ [][NextExport]_vars

(***************************************************************************)
(* The filter layer: _matches_pattern.  Strings are sequences of            *)
(* characters.                                                             *)
(***************************************************************************)
\* the strings over an alphabet of at most n characters
RECURSIVE StringsUpTo(_, _)
StringsUpTo(alphabet, n) ==
    IF n = 0 THEN {<<>>}
    ELSE LET shorter == StringsUpTo(alphabet, n - 1)
         IN shorter \cup {Append(w, c) : w \in shorter, c \in alphabet}
\* Longest attribute key and longest pattern explored.
MaxKeyLen == 3
MaxPatternLen == 3
AttrKeyStrings == StringsUpTo({"a", "b"}, MaxKeyLen)
PatternStrings == StringsUpTo({"a", "b", "*"}, MaxPatternLen)

\* str.startswith / str.endswith
StartsWith(str, prefix) ==
    Len(prefix) <= Len(str) /\ SubSeq(str, 1, Len(prefix)) = prefix
EndsWith(str, suffix) ==
    /\ Len(suffix) <= Len(str)
    /\ SubSeq(str, Len(str) - Len(suffix) + 1, Len(str)) = suffix
\* str.find(part): the lowest 0-based index at which part occurs, or -1
\* (here: Len(str) + 1 stands for -1)
NotFound(str) == Len(str) + 1
Find(str, part) ==
    LET hits == {i \in 0..(Len(str) - Len(part)) :
                    SubSeq(str, i + 1, i + Len(part)) = part}
    IN IF Len(part) > Len(str) \/ hits = {} THEN NotFound(str)
       ELSE CHOOSE i \in hits : \A j \in hits : i <= j
\* pattern.split("*"), then the non-empty parts
RECURSIVE Split(_, _)
Split(pattern, current) ==
    IF pattern = <<>> THEN <<current>>
    ELSE IF Head(pattern) = "*" THEN <<current>> \o Split(Tail(pattern), <<>>)
    ELSE Split(Tail(pattern), Append(current, Head(pattern)))
NonEmpty(part) == part # <<>>
Parts(pattern) == SelectSeq(Split(pattern, <<>>), NonEmpty)

\* the loop of _matches_pattern over parts, from index idx with the rest of
\* the value still to be searched
RECURSIVE MatchParts(_, _, _, _)
MatchParts(parts, idx, remaining, pattern) ==
    IF idx > Len(parts)
    THEN ~(~EndsWith(pattern, <<"*">>) /\ remaining # <<>>)
    ELSE LET part == parts[idx]
             pos == Find(remaining, part)
         IN IF pos = NotFound(remaining) THEN FALSE
            ELSE IF idx = 1 /\ ~StartsWith(pattern, <<"*">>) /\ pos # 0 THEN FALSE
            ELSE MatchParts(parts, idx + 1,
                            SubSeq(remaining, pos + Len(part) + 1, Len(remaining)),
                            pattern)

\* _matches_pattern(value, pattern)
_matches_pattern(value, pattern) ==
    IF pattern = <<"*">> THEN TRUE
    ELSE IF \A i \in DOMAIN pattern : pattern[i] # "*" THEN value = pattern
    ELSE IF Parts(pattern) = <<>> THEN TRUE
    ELSE MatchParts(Parts(pattern), 1, value, pattern)

InitMatch ==
    /\ InitServer
    /\ show = NoShow
    /\ matching \in [value : AttrKeyStrings, pattern : PatternStrings,
                      result : {{}}]

Match ==
    /\ matching.result = {}
    /\ matching' = [matching EXCEPT
                       !.result = {_matches_pattern(matching.value, matching.pattern)}]
    /\ UNCHANGED <<seqvars, concvars, routed, export, show, listener, runtime>>

SpecMatch == InitMatch /\ [][Match]_vars

(***************************************************************************)
(* The filter layer: _filter_traces and the show command.                  *)
(***************************************************************************)
\* An optional integer (int | None) is the set of its values: {} is None.
\* int(text) for a decimal numeral with an optional sign; None for a text
\* that is no numeral (ValueError)
DigitValue(c) ==
    CASE c = "0" -> 0 [] c = "1" -> 1 [] c = "2" -> 2 [] c = "3" -> 3
      [] c = "4" -> 4 [] c = "5" -> 5 [] c = "6" -> 6 [] c = "7" -> 7
      [] c = "8" -> 8 [] c = "9" -> 9
Digits == {"0", "1", "2", "3", "4", "5", "6", "7", "8", "9"}
RECURSIVE DigitsValue(_, _)
DigitsValue(text, acc) ==
    IF text = <<>> THEN acc
    ELSE DigitsValue(Tail(text), 10 * acc + DigitValue(Head(text)))
IsNumeral(text) == text # <<>> /\ \A i \in DOMAIN text : text[i] \in Digits
ParseInt(text) ==
    IF IsNumeral(text) THEN {DigitsValue(text, 0)}
    ELSE IF text # <<>> /\ Head(text) = "-" /\ IsNumeral(Tail(text))
         THEN {0 - DigitsValue(Tail(text), 0)}
    ELSE {}

\* _safe_int(value, default = 0)
_safe_int(value) ==
    IF ParseInt(value) = {} THEN 0 ELSE CHOOSE n \in ParseInt(value) : TRUE

\* _parse_since_seconds(value): None, or the number of seconds
_parse_since_seconds(value) ==
    IF value = <<>> THEN {}
    ELSE IF Len(value) < 2 THEN {}
    ELSE LET number == SubSeq(value, 1, Len(value) - 1)
             unit == value[Len(value)]
             multiplier == CASE unit = "m" -> {60}
                             [] unit = "h" -> {60 * 60}
                             [] unit = "d" -> {60 * 60 * 24}
                             [] OTHER -> {}
         IN {qty * m : qty \in ParseInt(number), m \in multiplier}

\* _attribute_map(span): the dict built from the attribute list, a later
\* item replacing an earlier one with the same key
RECURSIVE AttrFold(_, _)
AttrFold(items, attrs) ==
    IF items = <<>> THEN attrs
    ELSE AttrFold(Tail(items), DictSet(attrs, Head(items).key, Head(items).value))
_attribute_map(span) == AttrFold(span.attributes, EmptyDict)

\* _collect_attr_keys(traces)
_collect_attr_keys(traces) ==
    UNION {UNION {{traces[i].spans[j].attributes[k].key :
                      k \in DOMAIN traces[i].spans[j].attributes} :
                  j \in DOMAIN traces[i].spans} :
           i \in DOMAIN traces}

\* _filter_attributes(span, patterns)
_filter_attributes(span, patterns) ==
    IF patterns = <<>> THEN span
    ELSE LET Kept(item) == \E i \in DOMAIN patterns :
                              _matches_pattern(item.key, patterns[i])
         IN [span EXCEPT !.attributes = SelectSeq(span.attributes, Kept)]

\* Nanoseconds per second (1_000_000_000 in the source).
NanosPerSecond == 1000

\* _filter_traces: the loop over the traces (time window, attribute patterns,
\* traces without spans skipped)
RECURSIVE MapSpans(_, _)
MapSpans(spans, patterns) ==
    IF spans = <<>> THEN <<>>
    ELSE <<_filter_attributes(Head(spans), patterns)>>
            \o MapSpans(Tail(spans), patterns)
Candidate(trace, patterns, since_nanos) ==
    LET Recent(span) ==
            \A cutoff \in since_nanos : _safe_int(span.startTimeUnixNano) >= cutoff
        spans1 == IF since_nanos # {} THEN SelectSeq(trace.spans, Recent)
                  ELSE trace.spans
        spans2 == IF patterns # <<>> THEN MapSpans(spans1, patterns) ELSE spans1
    IN IF spans2 = <<>> THEN <<>>
       ELSE <<[trace EXCEPT !.spans = spans2]>>
RECURSIVE Candidates(_, _, _)
Candidates(traces, patterns, since_nanos) ==
    IF traces = <<>> THEN <<>>
    ELSE Candidate(Head(traces), patterns, since_nanos)
            \o Candidates(Tail(traces), patterns, since_nanos)
\* _filter_traces.matches_where
matches_where(trace, where_filters) ==
    \A w \in DOMAIN where_filters :
       \E j \in DOMAIN trace.spans :
          /\ where_filters[w].key \in DOMAIN _attribute_map(trace.spans[j])
          /\ _attribute_map(trace.spans[j])[where_filters[w].key]
                = where_filters[w].value
\* _filter_traces(traces, filter_patterns, where_filters, since_seconds),
\* with time.time() = now_nanos / 1e9: the filtered traces
_filter_traces(traces, filter_patterns, where_filters, since_seconds, now_nanos) ==
    LET since_nanos == {now_nanos - seconds * NanosPerSecond :
                           seconds \in since_seconds \ {0}}
        filtered_traces == Candidates(traces, filter_patterns, since_nanos)
        Matches(trace) == matches_where(trace, where_filters)
    IN IF where_filters # <<>> THEN SelectSeq(filtered_traces, Matches)
       ELSE filtered_traces

\* fnmatch(name, pat) for patterns made of literals and "*"
RECURSIVE fnmatch(_, _)
fnmatch(name, pat) ==
    IF pat = <<>> THEN name = <<>>
    ELSE IF Head(pat) = "*"
         THEN \E k \in 0..Len(name) :
                 fnmatch(SubSeq(name, k + 1, Len(name)), Tail(pat))
    ELSE name # <<>> /\ Head(name) = Head(pat) /\ fnmatch(Tail(name), Tail(pat))

\* _run_trace_show with target "any" and --json, from the parsed --filter
\* patterns and --where pairs on: the error it raises, whether it warns
\* about filter keys not found, and the traces it prints
_run_trace_show(traces_raw, patterns, parsed_where, since, now_nanos) ==
    LET available_keys == _collect_attr_keys(traces_raw)
        missing_keys == {w \in DOMAIN parsed_where :
                            parsed_where[w].key \notin available_keys}
        unmatched == {i \in DOMAIN patterns :
                         ~\E key \in available_keys : fnmatch(key, patterns[i])}
    IN IF traces_raw # <<>> /\ parsed_where # <<>> /\ missing_keys # {}
       THEN [error |-> "Unknown --where key(s)", warning |-> FALSE,
             traces |-> <<>>]
       ELSE [error |-> "",
             warning |-> (traces_raw # <<>> /\ patterns # <<>> /\ unmatched # {}),
             traces |-> _filter_traces(traces_raw, patterns, parsed_where,
                                       _parse_since_seconds(since), now_nanos)]

\* A direct call of _filter_traces on the inputs of the run
FilterTraces ==
    /\ show.filtered = {}
    /\ show' = [show EXCEPT !.filtered =
                    {_filter_traces(show.traces_raw, show.patterns, show.where,
                                    _parse_since_seconds(show.since), show.now)}]
    /\ UNCHANGED <<seqvars, concvars, routed, export, matching, listener, runtime>>

\* The show command
TraceShow ==
    /\ show.out = {}
    /\ show' = [show EXCEPT !.out =
                    {_run_trace_show(show.traces_raw, show.patterns, show.where,
                                     show.since, show.now)}]
    /\ UNCHANGED <<seqvars, concvars, routed, export, matching, listener, runtime>>

NextShow == FilterTraces \/ TraceShow

\* What a snapshot fetched from the listener is made of.
AttrKeys == {<<"a">>, <<"b">>}
AttrItems == [key : AttrKeys, value : {"v1", "v2"}]
\* time.time() of the run, in (scaled) nanoseconds, and the start times of
\* spans as _proto_span_to_dict writes them: 2 hours, 30 minutes before it
Now == 9000000
StartTimes ==
    {<<"1", "8", "0", "0", "0", "0", "0">>, <<"7", "2", "0", "0", "0", "0", "0">>}
SeqsUpTo2(S) == {<<>>} \cup {<<x>> : x \in S} \cup {<<x, y>> : x \in S, y \in S}
\* attribute lists of at most two different items
AttrListsOf(items) == {l \in SeqsUpTo2(items) : Len(l) < 2 \/ l[1] # l[2]}
SpansWith(attrLists, times) == [startTimeUnixNano : times, attributes : attrLists]
\* a group of the store retains at least one span
TracesWith(spans) == [trace_id : {"w1"}, spans : SeqsUpTo2(spans) \ {<<>>}]
\* a snapshot of at most two traces (the second one under another key)
SnapshotsOf(traces) ==
    {<<>>} \cup {<<x>> : x \in traces}
           \cup {<<x, [y EXCEPT !.trace_id = "w2"]>> : x \in traces, y \in traces}
\* the inputs of a run, nothing computed yet
Runs(snapshots, patterns, wheres, sinces) ==
    [traces_raw : snapshots, patterns : patterns, where : wheres, since : sinces,
     now : {Now}, filtered : {{}}, out : {{}}]

\* Runs with --where only: attribute lists with repeated keys, pairs whose
\* key may be absent from the snapshot (key "c").
WhereItems ==
    {[key |-> <<"a">>, value |-> "v1"], [key |-> <<"a">>, value |-> "v2"],
     [key |-> <<"b">>, value |-> "v2"]}
WherePairs ==
    SeqsUpTo2({[key |-> <<"a">>, value |-> "v1"], [key |-> <<"b">>, value |-> "v2"]})
       \cup {<<[key |-> <<"c">>, value |-> "v1"]>>}
InitWhere ==
    /\ InitServer
    /\ matching = NoMatching
    /\ show \in Runs(SnapshotsOf(TracesWith(
                         SpansWith(AttrListsOf(WhereItems), {<<"0">>}))),
                     {<<>>}, WherePairs, {<<>>})

SpecWhere == InitWhere /\ [][NextShow]_vars

\* Runs with --since only: spans that started 2 hours and 30 minutes before
\* the run; well-formed windows (zero and a negative quantity included) and
\* strings that are no window.
SinceStrings ==
    {<<"0", "m">>, <<"1", "0", "m">>, <<"4", "5", "m">>, <<"1", "h">>,
     <<"2", "h">>, <<"3", "h">>, <<"1", "d">>, <<"-", "1", "h">>,
     <<"1", "s">>, <<"h">>, <<"x", "h">>}
InitSince ==
    /\ InitServer
    /\ matching = NoMatching
    /\ show \in Runs(SnapshotsOf(TracesWith(SpansWith({<<>>}, StartTimes))),
                     {<<>>}, {<<>>}, SinceStrings)

SpecSince == InitSince /\ [][NextShow]_vars

\* Runs with --filter only: attribute keys "a" and "ab", patterns that match
\* both, one or none of them.
PatternItems ==
    {[key |-> <<"a">>, value |-> "v1"], [key |-> <<"a", "b">>, value |-> "v1"]}
FilterPatterns ==
    SeqsUpTo2({<<"a">>, <<"a", "*">>, <<"*", "b">>, <<"c", "*">>})
InitPatterns ==
    /\ InitServer
    /\ matching = NoMatching
    /\ show \in Runs(SnapshotsOf(TracesWith(
                         SpansWith(AttrListsOf(PatternItems), {<<"0">>}))),
                     FilterPatterns, {<<>>}, {<<>>})

SpecPatterns == InitPatterns /\ [][NextShow]_vars

\* Runs with --where and --filter together: pairs on the keys "a" and "ab",
\* no pattern, or one pattern that matches both keys, one of them or none.
SelectWhere ==
    SeqsUpTo2({[key |-> <<"a">>, value |-> "v1"],
               [key |-> <<"a", "b">>, value |-> "v1"]})
SelectPatterns ==
    {<<>>} \cup {<<x>> : x \in {<<"a">>, <<"a", "*">>, <<"*", "b">>, <<"c", "*">>}}
InitSelect ==
    /\ InitServer
    /\ matching = NoMatching
    /\ show \in Runs(SnapshotsOf(TracesWith(
                         SpansWith(AttrListsOf(PatternItems), {<<"0">>}))),
                     SelectPatterns, SelectWhere, {<<>>})

SpecSelect == InitSelect /\ [][NextShow]_vars

(***************************************************************************)
(* The show command as a whole: target, --list, --limit and the output.    *)
(***************************************************************************)
\* a text of n characters c ("0" * 32)
Chars(n, c) == [i \in 1..n |-> c]
\* string.hexdigits
hexdigits ==
    {"0", "1", "2", "3", "4", "5", "6", "7", "8", "9",
     "a", "b", "c", "d", "e", "f", "A", "B", "C", "D", "E", "F"}
\* str.lower()
LowerChar(c) ==
    CASE c = "A" -> "a" [] c = "B" -> "b" [] c = "C" -> "c" [] c = "D" -> "d"
      [] c = "E" -> "e" [] c = "F" -> "f" [] c = "G" -> "g" [] OTHER -> c
lower(text) == [i \in DOMAIN text |-> LowerChar(text[i])]
\* text[:n] for n >= 0
Take(text, n) == SubSeq(text, 1, IF n < Len(text) THEN n ELSE Len(text))

\* _is_hex(value, length)
_is_hex(value, length) ==
    Len(value) = length /\ \A i \in DOMAIN value : value[i] \in hexdigits

\* the targets "last" and "any"
TargetLast == <<"l", "a", "s", "t">>
TargetAny == <<"a", "n", "y">>

\* _run_trace_show: `target = "any" if list_only or since or limit else
\* "last"` for an absent target (an absent option is {}, an absent --since
\* is the empty text)
DefaultTarget_AlwaysAny(target, list_only, since, limit) ==
    IF target = {} THEN TargetAny ELSE CHOOSE t \in target : TRUE
DefaultTarget(target, list_only, since, limit) ==
    IF target = {}
    THEN IF list_only \/ since # <<>> \/ (limit # {} /\ limit # {0})
         THEN TargetAny ELSE TargetLast
    ELSE CHOOSE t \in target : TRUE

\* _run_trace_show: the validation of the target, as the message of the
\* ClickException it raises ("" when it raises none)
TargetError_ZerosAccepted(target, list_only) ==
    IF list_only /\ target \notin {TargetLast, TargetAny}
    THEN "Target and --list cannot be used together."
    ELSE IF target \in {TargetLast, TargetAny} THEN ""
    ELSE IF Len(lower(target)) = 8
         THEN IF ~_is_hex(lower(target), 8)
              THEN "Short trace ID must be 8 hex characters." ELSE ""
    ELSE IF Len(lower(target)) = 32
         THEN IF ~_is_hex(lower(target), 32)
              THEN "Trace ID must be 32 hex characters." ELSE ""
    ELSE "Trace ID must be 8 or 32 hex characters."
TargetError(target, list_only) ==
    IF list_only /\ target \notin {TargetLast, TargetAny}
    THEN "Target and --list cannot be used together."
    ELSE IF target \in {TargetLast, TargetAny} THEN ""
    ELSE IF Len(lower(target)) = 8
         THEN IF ~_is_hex(lower(target), 8) \/ lower(target) = Chars(8, "0")
              THEN "Short trace ID must be 8 hex characters." ELSE ""
    ELSE IF Len(lower(target)) = 32
         THEN IF ~_is_hex(lower(target), 32) \/ lower(target) = Chars(32, "0")
              THEN "Trace ID must be 32 hex characters." ELSE ""
    ELSE "Trace ID must be 8 or 32 hex characters."

\* _run_trace_show: short_target (None, or the lowered 8-character target)
short_target(target) ==
    IF target \notin {TargetLast, TargetAny} /\ Len(target) = 8
    THEN {lower(target)} ELSE {}

\* _run_trace_show: the traces the (validated) target selects
SelectTarget_AsTyped(traces, target) ==
    LET Exact(t) == t.trace_id = target
        Prefixed(t) == Take(t.trace_id, 8) = target
    IN IF target = TargetLast THEN Take(traces, 1)
       ELSE IF target = TargetAny THEN traces
       ELSE IF short_target(target) = {} THEN SelectSeq(traces, Exact)
       ELSE SelectSeq(traces, Prefixed)
SelectTarget(traces, target) ==
    LET Exact(t) == t.trace_id = target
        Prefixed(t) ==
            \A short \in short_target(target) :
               Take(lower(t.trace_id), Len(short)) = short
        traces1 == IF target = TargetLast THEN Take(traces, 1)
                   ELSE IF target # TargetAny /\ short_target(target) = {}
                        THEN SelectSeq(traces, Exact)
                   ELSE traces
    IN IF short_target(target) # {} THEN SelectSeq(traces1, Prefixed)
       ELSE traces1

\* trace.get("trace_id") for every trace
TraceIds(traces) == [i \in DOMAIN traces |-> traces[i].trace_id]
\* _trace_id_short(_trace_summary(t).trace_id) for every trace
Unknown == <<"u", "n", "k", "n", "o", "w", "n">>
_trace_id_short(trace_id) == IF trace_id # <<>> THEN Take(trace_id, 8) ELSE Unknown
ShortIds(traces) == [i \in DOMAIN traces |-> _trace_id_short(traces[i].trace_id)]

\* _run_trace_show from `if limit is not None:` on: what is printed.  kind
\* is the form of the output (the JSON document of traces or of trace ids,
\* the list of short ids, the interactive choice among traces, the tree of
\* one trace, or a notice that there is nothing), items what it shows.
Output(traces, ids, limit, list_only, json_out, terminal) ==
    LET trace_ids == IF limit # {} /\ list_only
                     THEN Take(ids, CHOOSE n \in limit : TRUE) ELSE ids
        traces1 == IF limit # {} /\ ~list_only
                   THEN Take(traces, CHOOSE n \in limit : TRUE) ELSE traces
    IN IF json_out
       THEN IF list_only THEN [kind |-> "json trace_ids", items |-> trace_ids]
            ELSE [kind |-> "json traces", items |-> traces1]
       ELSE IF list_only
            THEN IF traces1 # <<>> /\ terminal
                 THEN [kind |-> "select", items |-> traces1]
                 ELSE IF traces1 # <<>>
                      THEN [kind |-> "Trace IDs", items |-> ShortIds(traces1)]
                 ELSE IF trace_ids = <<>>
                      THEN [kind |-> "No trace IDs found.", items |-> <<>>]
                 ELSE [kind |-> "Trace IDs", items |-> trace_ids]
       ELSE IF traces1 = <<>>
            THEN [kind |-> "No traces found.", items |-> <<>>]
       ELSE [kind |-> "tree", items |-> <<traces1[1]>>]

\* a run that ends with a ClickException
Rejected(message) ==
    [error |-> message, warning |-> FALSE, fetched |-> FALSE,
     filtered |-> <<>>, selected |-> <<>>, kind |-> "error", items |-> <<>>]

\* _run_trace_show(target, filter_patterns, where_filters, list_only,
\* no_interactive, limit, since, json_out, verbose), from the parsed
\* patterns and pairs on; terminal is `console.is_terminal and not
\* no_interactive`.  filtered is what _filter_traces returned, selected the
\* traces left by the target.
trace_show(c) ==
    IF \E n \in c.limit : n < 0
    THEN Rejected("Limit must be greater than or equal to 0.")
    ELSE LET target == DefaultTarget(c.target, c.list_only, c.since, c.limit)
         IN IF TargetError(target, c.list_only) # ""
            THEN Rejected(TargetError(target, c.list_only))
            ELSE LET run == _run_trace_show(c.traces_raw, c.patterns, c.where,
                                            c.since, c.now)
                     selected == SelectTarget(run.traces, target)
                     printed == Output(selected, TraceIds(selected), c.limit,
                                       c.list_only, c.json_out, c.terminal)
                 IN IF run.error # ""
                    THEN [Rejected(run.error) EXCEPT !.fetched = TRUE]
                    ELSE [error |-> "", warning |-> run.warning,
                          fetched |-> TRUE, filtered |-> run.traces,
                          selected |-> selected, kind |-> printed.kind,
                          items |-> printed.items]

\* The show command, all options
ShowCommand ==
    /\ show.out = {}
    /\ show' = [show EXCEPT !.out = {trace_show(show)}]
    /\ UNCHANGED <<seqvars, concvars, routed, export, matching, listener, runtime>>

NextCommand == FilterTraces \/ ShowCommand

\* Group keys of the snapshots: span.trace_id.hex(), 32 lower-case hex
\* characters; the first two share their first 8 characters.
TraceIdA == <<"a", "b", "c", "d", "e", "f", "1", "2">> \o Chars(24, "0")
TraceIdB == <<"a", "b", "c", "d", "e", "f", "1", "2">> \o Chars(24, "1")
TraceIdC == <<"0", "0", "0", "0", "0", "0", "0", "1">> \o Chars(24, "0")
\* one trace per key, of one span: A and C started 30 minutes before the
\* run, B two hours before it
TraceOf(id) ==
    [trace_id |-> id,
     spans |-> <<[startTimeUnixNano |->
                     IF id = TraceIdB
                     THEN <<"1", "8", "0", "0", "0", "0", "0">>
                     ELSE <<"7", "2", "0", "0", "0", "0", "0">>,
                  attributes |-> <<>>]>>]
\* the snapshots: up to three groups under different keys, in any order
Snapshots ==
    LET ids == {TraceIdA, TraceIdB, TraceIdC}
        orders == {<<>>} \cup {<<x>> : x \in ids}
                     \cup {<<x, y>> : x \in ids, y \in ids}
                     \cup {<<x, y, z>> : x \in ids, y \in ids, z \in ids}
    IN {[i \in DOMAIN order |-> TraceOf(order[i])] :
          order \in {o \in orders :
                        \A i, j \in DOMAIN o : i # j => o[i] # o[j]}}
\* the target tokens: absent, last, any, 8-character prefixes (of A and B
\* in lower and upper case, of no group, all zeros, not hexadecimal), full
\* ids (of A as typed and in upper case, all zeros, not hexadecimal) and
\* tokens of other lengths
Upper8 == <<"A", "B", "C", "D", "E", "F", "1", "2">>
Targets ==
    {{}, {TargetLast}, {TargetAny},
     {Take(TraceIdA, 8)}, {Upper8}, {Take(TraceIdC, 8)},
     {<<"1", "2", "3", "4", "5", "6", "7", "8">>},
     {Chars(8, "0")}, {<<"a", "b", "c", "d", "e", "f", "1", "g">>},
     {TraceIdA}, {Upper8 \o Chars(24, "0")}, {Chars(32, "0")},
     {Take(TraceIdA, 31) \o <<"g">>},
     {<<"a", "b", "c">>}, {<<>>}, {Take(TraceIdA, 9)}, {TraceIdA \o <<"0">>}}
\* --limit: absent, invalid, 0, 1, 2
Limits == {{}, {0 - 1}, {0}, {1}, {2}}
\* --since: absent, a window of one hour, strings that are no window
CommandSince ==
    {<<>>, <<"1", "h">>, <<"1", "s">>, <<"1", "0">>, <<"x", "h">>, <<"h">>}
Commands ==
    [traces_raw : Snapshots, patterns : {<<>>}, where : {<<>>},
     since : CommandSince, now : {Now}, filtered : {{}}, out : {{}},
     target : Targets, list_only : BOOLEAN, limit : Limits,
     json_out : BOOLEAN, terminal : BOOLEAN]
InitCommand ==
    /\ InitServer
    /\ matching = NoMatching
    /\ show \in Commands

SpecCommand == InitCommand /\ [][NextCommand]_vars

(***************************************************************************)
(* The listener: _create_trace_server binds the port and starts the        *)
(* server that feeds the store.                                            *)
(***************************************************************************)
\* Number of merge_spans calls explored while a listener runs.
MaxListenerCalls == 2

\* grpc.Server.add_insecure_port on a port it cannot bind: the grpc runtime
\* raises RuntimeError, or (older runtimes) returns port 0 without raising
BindFailure ==
    {[kind |-> "RuntimeError", message |-> "Failed to bind to address"],
     NoRaise}

\* another process takes the port, or gives it back
PortTaken ==
    /\ listener.port = "free"
    /\ listener' = [listener EXCEPT !.port = "other"]
    /\ UNCHANGED <<seqvars, concvars, routed, export, matching, show, runtime>>
PortReleased ==
    /\ listener.port = "other"
    /\ listener' = [listener EXCEPT !.port = "free"]
    /\ UNCHANGED <<seqvars, concvars, routed, export, matching, show, runtime>>

\* _create_trace_server(host, grpc_port), as _start_trace_listener and
\* start_trace_listener_background call it: grpc.server(...),
\* add_insecure_port, start, return.  Nothing is caught: what
\* add_insecure_port raises reaches the caller, and when it raises nothing
\* the server is started and returned whether or not it has the port.
_create_trace_server ==
    /\ listener.server = "none"
    /\ IF listener.port = "free"
       THEN listener' = [port |-> "ours", server |-> "running", bound |-> TRUE,
                         raised |-> NoRaise, bind_failed |-> FALSE]
       ELSE \E failure \in BindFailure :
               listener' = [port |-> listener.port,
                            server |-> IF failure = NoRaise THEN "running"
                                       ELSE "none",
                            bound |-> FALSE, raised |-> failure,
                            bind_failed |-> TRUE]
    /\ UNCHANGED <<seqvars, concvars, routed, export, matching, show, runtime>>

\* grpc_server.stop(...)
StopServer ==
    /\ listener.server = "running"
    /\ listener' = [listener EXCEPT
                       !.server = "none", !.bound = FALSE,
                       !.port = IF listener.bound THEN "free" ELSE @]
    /\ UNCHANGED <<seqvars, concvars, routed, export, matching, show, runtime>>

\* a span reaches Export through the bound port
Receive(span) ==
    /\ listener.server = "running" /\ listener.bound
    /\ ncalls < MaxListenerCalls
    /\ Ingest(span)
    /\ UNCHANGED <<concvars, routed, export, matching, show, listener, runtime>>

NextListener ==
    \/ PortTaken
    \/ PortReleased
    \/ _create_trace_server
    \/ StopServer
    \/ \E span \in Inputs : Receive(span)

SpecListener == Init /\ [][NextListener]_vars

(***************************************************************************)
(* The PID file of the background listener and stop_listener_process.      *)
(***************************************************************************)
MaxStopCalls == 3

\* The PID file: absent, or holding text that int() rejects ("malformed"),
\* an integer that is no process id for os.kill ("overflow"), or the process
\* id of the listener ("pid").  The listener process: "none" once it has
\* exited, "running", or "stopping" when it got SIGTERM and is shutting down.
remove_listener_pid(rt) == [rt EXCEPT !.file = "absent"]
write_listener_pid(rt) == [rt EXCEPT !.file = "pid"]

\* a get_listener_pid that leaves a stale or malformed file where it is
get_listener_pid_KeepsFile(rt) ==
    CASE rt.file = "absent" -> [rt |-> rt, pid |-> {}, raised |-> FALSE]
      [] rt.file = "malformed" -> [rt |-> rt, pid |-> {}, raised |-> FALSE]
      [] rt.file = "overflow" -> [rt |-> rt, pid |-> {}, raised |-> TRUE]
      [] OTHER ->
           IF rt.proc = "none" THEN [rt |-> rt, pid |-> {}, raised |-> FALSE]
           ELSE [rt |-> rt, pid |-> {"pid"}, raised |-> FALSE]
\* get_listener_pid(): the pid of the file when os.kill(pid, 0) finds the
\* process; ValueError and OSError remove the file and give None; the
\* OverflowError of os.kill is not caught
get_listener_pid(rt) ==
    CASE rt.file = "absent" -> [rt |-> rt, pid |-> {}, raised |-> FALSE]
      [] rt.file = "malformed" ->
           [rt |-> remove_listener_pid(rt), pid |-> {}, raised |-> FALSE]
      [] rt.file = "overflow" -> [rt |-> rt, pid |-> {}, raised |-> TRUE]
      [] OTHER ->
           IF rt.proc = "none"
           THEN [rt |-> remove_listener_pid(rt), pid |-> {}, raised |-> FALSE]
           ELSE [rt |-> rt, pid |-> {"pid"}, raised |-> FALSE]

\* stop_listener_process returns value with the file removed or not
Return(rt, value) == [rt EXCEPT !.pc = "returned", !.result = {value}]

StopFrame == UNCHANGED <<seqvars, concvars, routed, export, matching, show, listener>>

\* stop_listener_process(): pid = get_listener_pid(); if pid is None:
\* return False
StopCall ==
    /\ runtime.pc \in {"idle", "returned", "raised"}
    /\ runtime.calls < MaxStopCalls
    /\ LET got == get_listener_pid(
                     [runtime EXCEPT !.signals = <<>>, !.result = {},
                                     !.alive_after_grace = FALSE,
                                     !.calls = @ + 1])
       IN runtime' = IF got.raised THEN [got.rt EXCEPT !.pc = "raised"]
                     ELSE IF got.pid = {} THEN Return(got.rt, FALSE)
                     ELSE [got.rt EXCEPT !.pc = "have_pid"]
    /\ StopFrame

\* os.kill(pid, signal.SIGTERM); ProcessLookupError: remove_listener_pid(),
\* return False.  The process that gets the signal starts to shut down or
\* carries on.
SendTerm ==
    /\ runtime.pc = "have_pid"
    /\ IF runtime.proc = "none"
       THEN runtime' = Return(remove_listener_pid(runtime), FALSE)
       ELSE \E after \in {"running", "stopping"} :
               runtime' = [runtime EXCEPT !.pc = "sleeping",
                                          !.signals = Append(@, "SIGTERM"),
                                          !.proc = after]
    /\ StopFrame

\* time.sleep(grace_seconds); os.kill(pid, 0); ProcessLookupError: pass,
\* remove_listener_pid(), return True
CheckAlive ==
    /\ runtime.pc = "sleeping"
    /\ IF runtime.proc = "none"
       THEN runtime' = Return(remove_listener_pid(runtime), TRUE)
       ELSE runtime' = [runtime EXCEPT !.pc = "kill", !.alive_after_grace = TRUE]
    /\ StopFrame

\* os.kill(pid, signal.SIGKILL); ProcessLookupError: pass;
\* remove_listener_pid(), return True
SendKill ==
    /\ runtime.pc = "kill"
    /\ IF runtime.proc = "none"
       THEN runtime' = Return(remove_listener_pid(runtime), TRUE)
       ELSE runtime' = Return(remove_listener_pid(
                                 [runtime EXCEPT !.signals = Append(@, "SIGKILL"),
                                                 !.proc = "none"]), TRUE)
    /\ StopFrame

\* the listener process exits, on its own or after SIGTERM
ProcessExits ==
    /\ runtime.proc # "none"
    /\ runtime' = [runtime EXCEPT !.proc = "none"]
    /\ StopFrame

\* between two calls a listener is started and its pid written
ListenerStarts ==
    /\ runtime.pc \in {"idle", "returned", "raised"}
    /\ runtime.proc = "none"
    /\ runtime' = write_listener_pid(
                      [runtime EXCEPT !.proc = "running", !.pc = "idle"])
    /\ StopFrame

\* between two calls the file is overwritten with something else
FileDamaged ==
    /\ runtime.pc \in {"idle", "returned", "raised"}
    /\ \E text \in {"malformed", "overflow"} :
          /\ runtime.file # text
          /\ runtime' = [runtime EXCEPT !.file = text, !.pc = "idle"]
    /\ StopFrame

NextStop ==
    \/ StopCall
    \/ SendTerm
    \/ CheckAlive
    \/ SendKill
    \/ ProcessExits
    \/ ListenerStarts
    \/ FileDamaged

SpecStop == Init /\ [][NextStop]_vars

(***************************************************************************)
(* Properties of the store.                                                *)
(***************************************************************************)
Called == ncalls' = ncalls + 1
GroupOf(st, k) == st.traces[IndexOf(st.traces, k)]
\* the span dicts retained anywhere in the store
Retained(st) == UNION {{st.traces[i].spans[j] : j \in DOMAIN st.traces[i].spans} :
                       i \in DOMAIN st.traces}
\* the number of retained copies of span id sid in the whole store
Copies(st, sid) ==
    Cardinality({p \in UNION {{<<i, j>> : j \in DOMAIN st.traces[i].spans} :
                              i \in DOMAIN st.traces} :
                 st.traces[p[1]].spans[p[2]].spanId = sid})
\* some group retains both span dicts
SameGroup(st, x, y) ==
    \E i \in DOMAIN st.traces :
        \E j, k \in DOMAIN st.traces[i].spans :
            st.traces[i].spans[j] = x /\ st.traces[i].spans[k] = y

\* C1: ingesting a span (non-empty span id) that is already retained in the
\* store leaves exactly one retained copy of its span id in the whole store.
\* Stated for the re-ingestion of the very same span dict.
C1_IdempotentDedup ==
    [][(Called /\ last'.span.spanId # "" /\ last'.span \in Retained(store))
         => Copies(store', last'.span.spanId) = 1]_vars

\* C2: whenever a span and its parent are both retained in the store, some
\* group retains both of them.
C2_LinkedSpansShareGroup ==
    \A x, y \in Retained(store) :
        (y.spanId # "" /\ x.parentSpanId = y.spanId) => SameGroup(store, x, y)

\* C3: the store holds at most max_traces groups.
C3_AtMostMaxTraces == Len(store.traces) <= MAX_TRACES
\* a group was created in a full store, which is still full
C3_Witness ==
    Len(store.traces) = MAX_TRACES /\ last.created /\ last.evicted # {}
       /\ last.group_key \in Keys(store.traces)

\* C4: every group retains at most MAX_SPANS_PER_TRACE spans.
C4_AtMostMaxSpans ==
    \A i \in DOMAIN store.traces :
        Len(store.traces[i].spans) <= MAX_SPANS_PER_TRACE

\* a new group is created while the store already holds max_traces groups
CreatesAtCapacity ==
    Called /\ last'.created /\ Len(store.traces) >= MAX_TRACES

\* C5 as claimed: the group evicted for a new one is the one least recently
\* touched by a span insertion or a merge into it.
C5_EvictsLeastRecentlyInserted ==
    [][CreatesAtCapacity => last'.evicted = {Head(touch_ins)}]_vars
\* C5 as amended: exactly one group is evicted, the one least recently routed
\* to (created, or chosen as the target of a span, duplicate or not).
C5_EvictsLeastRecentlyRouted ==
    [][CreatesAtCapacity => last'.evicted = {Head(touch_route)}]_vars
\* a fourth call evicted one group of a full store for a new one, after an
\* earlier call had gone to a group that was already there
C5_Witness ==
    /\ ncalls = MaxCalls /\ last.created
    /\ Cardinality(last.evicted) = 1
    /\ last.evicted \cap Keys(store.traces) = {}

\* C6: every value of span_to_group and of parent_to_group is the key of a
\* group that is in the store.
C6_NoStalePointers ==
    /\ \A s \in DOMAIN store.span_to_group :
          store.span_to_group[s] \in Keys(store.traces)
    /\ \A p \in DOMAIN store.parent_to_group :
          store.parent_to_group[p] \in Keys(store.traces)

\* C7: the payload of a query is the content of the store at one single
\* instant between the snapshot and the serialization: no ingest that runs
\* after snapshot() returned shows through the returned list.
C7_ResponseIsOneInstant ==
    pc[Querier] = "done" => (response # {} /\ response \subseteq instants)

\* C8: a snapshot sees each Export request applied as a whole: when the
\* snapshot is taken, every request has merged none or all of its spans.
C8_BatchAtomic ==
    \A t \in Exporters : progress[t] \in {0, MaxBatch}

\* C9: when span A (no parent) is ingested for the first time after a child B
\* of it that carries another wire id, and both are retained afterwards, one
\* group retains both.
C9_BackwardMerge ==
    [][(/\ Called
        /\ last'.span.spanId # "" /\ last'.span.parentSpanId = ""
        /\ last'.span.spanId \notin DOMAIN store.span_to_group
        /\ last'.span \notin Retained(store)
        /\ last'.span \in Retained(store'))
         => \A b \in Retained(store) \cap Retained(store') :
               (b.parentSpanId = last'.span.spanId
                  /\ b.traceId # last'.span.traceId)
                 => SameGroup(store', b, last'.span)]_vars

\* span B arrives whose parent A is retained and carries another wire id
ForwardCase(a) ==
    /\ Called
    /\ a.spanId # "" /\ last'.span.parentSpanId = a.spanId
    /\ a.traceId # last'.span.traceId

SpansOf(st, k) == GroupOf(st, k).spans
HasRoomFor(st, k, span) ==
    /\ Len(SpansOf(st, k)) < MAX_SPANS_PER_TRACE
    /\ span.spanId = "" \/ span.spanId \notin st.seen_spans[k]

C11_CapCorrectness ==
    \A g \in Keys(store.traces) :
       Len(routed[g]) > MAX_SPANS_PER_TRACE =>
          /\ \A i \in DOMAIN routed[g] :
                (i <= MAX_SPANS_PER_TRACE) <=>
                   (\E j \in DOMAIN SpansOf(store, g) :
                       SpansOf(store, g)[j] = routed[g][i])
          /\ \A i \in DOMAIN routed[g] :
                routed[g][i].spanId # "" =>
                   /\ routed[g][i].spanId \in DOMAIN store.span_to_group
                   /\ store.span_to_group[routed[g][i].spanId] = g

\* C12: snapshot() lists exactly the groups of the store, the group a span
\* was routed to most recently first, then the others by decreasing time of
\* their last routing (a merge target is the group just routed to).
C12_SnapshotNewestFirst ==
    LET snap == dumps(snapshot(store))
        n == Len(touch_route)
    IN /\ Len(snap) = n
       /\ \A i \in 1..n :
             /\ snap[i].trace_id = touch_route[n + 1 - i]
             /\ snap[i] = GroupOf(store, touch_route[n + 1 - i])
\* a span skipped as a duplicate brought its group to the front of a snapshot
\* of two groups, ahead of the group that was inserted into last
C12_Witness ==
    /\ Len(store.traces) = 2 /\ last.dedup
    /\ touch_ins # <<>> /\ touch_ins[Len(touch_ins)] # last.group_key
    /\ dumps(snapshot(store))[1].trace_id = last.group_key

\* C13: a span without span id that is routed to a group the store does not
\* hold is dropped: the call leaves the store as it was (no group, no retained
\* span, no index entry).
C13_AnonymousCreatorDropped ==
    [][(Called /\ last'.span.spanId = "" /\ last'.created) => store' = store]_vars

\* C14: every Export call answers with the empty success response and leaves
\* the store as the ingestion, in request order, of exactly the spans of its
\* request that carry a wire trace id leaves it.
C14_ExportAlwaysSucceeds ==
    export.response # None =>
       /\ export.response = "ExportTraceServiceResponse()"
       /\ store = export.expected

\* Glob matching restricted to literals and "*": "*" stands for any string.
RECURSIVE Glob(_, _)
Glob(value, pattern) ==
    IF pattern = <<>> THEN value = <<>>
    ELSE IF Head(pattern) = "*"
         THEN \E k \in 0..Len(value) :
                 Glob(SubSeq(value, k + 1, Len(value)), Tail(pattern))
    ELSE /\ value # <<>> /\ Head(value) = Head(pattern)
         /\ Glob(Tail(value), Tail(pattern))

\* C18: _matches_pattern agrees with glob matching restricted to literals
\* and "*", for every key and every pattern.
C18_MatchesLikeGlob ==
    \A result \in matching.result :
       result <=> Glob(matching.value, matching.pattern)

\* some span of the trace has an attribute with this key and this value
HasAttribute(trace, pair) ==
    \E j \in DOMAIN trace.spans :
       \E k \in DOMAIN trace.spans[j].attributes :
          /\ trace.spans[j].attributes[k].key = pair.key
          /\ trace.spans[j].attributes[k].value = pair.value

\* C15: with --where pairs only, _filter_traces retains exactly the traces
\* in which, for every pair, some span has an attribute with that key and
\* that value.
C15_WhereAndOverPairs ==
    LET Satisfies(trace) ==
            \A w \in DOMAIN show.where : HasAttribute(trace, show.where[w])
    IN (show.patterns = <<>> /\ show.since = <<>>) =>
          \A filtered \in show.filtered :
             filtered = SelectSeq(show.traces_raw, Satisfies)

\* C16: a --where pair whose key is no attribute key of any span of the
\* fetched snapshot makes the command fail with a validation error, for
\* every snapshot, the empty one included.
C16_UnknownWhereKeyRejected ==
    \A out \in show.out :
       (\E w \in DOMAIN show.where :
           \A i \in DOMAIN show.traces_raw :
              \A j \in DOMAIN show.traces_raw[i].spans :
                 \A k \in DOMAIN show.traces_raw[i].spans[j].attributes :
                    show.traces_raw[i].spans[j].attributes[k].key
                       # show.where[w].key)
          => out.error # ""

\* The windows <integer><unit> of SinceStrings, in seconds, and the start
\* times of StartTimes, in (scaled) nanoseconds.
WindowSeconds ==
    (<<"0", "m">> :> 0) @@ (<<"1", "0", "m">> :> 600) @@ (<<"4", "5", "m">> :> 2700)
       @@ (<<"1", "h">> :> 3600) @@ (<<"2", "h">> :> 7200) @@ (<<"3", "h">> :> 10800)
       @@ (<<"1", "d">> :> 86400) @@ (<<"-", "1", "h">> :> 0 - 3600)
StartedAt(span) ==
    IF span.startTimeUnixNano = <<"1", "8", "0", "0", "0", "0", "0">>
    THEN Now - 7200 * NanosPerSecond
    ELSE Now - 1800 * NanosPerSecond
\* the traces with their spans that started at or after cutoff, traces left
\* without span dropped
RECURSIVE Window(_, _)
Window(traces, cutoff) ==
    IF traces = <<>> THEN <<>>
    ELSE LET Recent(span) == StartedAt(span) >= cutoff
             spans == SelectSeq(Head(traces).spans, Recent)
         IN (IF spans = <<>> THEN <<>>
             ELSE <<[Head(traces) EXCEPT !.spans = spans]>>)
               \o Window(Tail(traces), cutoff)

\* C17: with a window <integer><unit> (unit m, h or d; zero included) and no
\* other option, _filter_traces at time now retains exactly the spans that
\* started at or after now minus the window and drops the traces left with
\* no span.
C17_TimeWindow ==
    (show.since \in DOMAIN WindowSeconds /\ show.patterns = <<>>
        /\ show.where = <<>>) =>
       \A filtered \in show.filtered :
          filtered = Window(show.traces_raw,
                            show.now - WindowSeconds[show.since] * NanosPerSecond)

\* the spans of a trace cut down to the attributes whose key matches one of
\* the patterns, the spans left without attribute removed; and the traces so
\* treated, those left without span dropped
RECURSIVE KeptSpans(_, _)
KeptSpans(spans, patterns) ==
    IF spans = <<>> THEN <<>>
    ELSE LET Matching(item) == \E i \in DOMAIN patterns : Glob(item.key, patterns[i])
             attributes == SelectSeq(Head(spans).attributes, Matching)
         IN (IF attributes = <<>> THEN <<>>
             ELSE <<[Head(spans) EXCEPT !.attributes = attributes]>>)
               \o KeptSpans(Tail(spans), patterns)
RECURSIVE KeptTraces(_, _)
KeptTraces(traces, patterns) ==
    IF traces = <<>> THEN <<>>
    ELSE (IF KeptSpans(Head(traces).spans, patterns) = <<>> THEN <<>>
          ELSE <<[Head(traces) EXCEPT !.spans = KeptSpans(@, patterns)]>>)
            \o KeptTraces(Tail(traces), patterns)

\* C19: with attribute patterns (and no other option), the result of
\* _filter_traces holds every span cut down to its attributes whose key
\* matches a pattern, only the spans that keep an attribute, and only the
\* traces that keep a span.
C19_PatternsKeepMatchingSpans ==
    (show.patterns # <<>> /\ show.where = <<>> /\ show.since = <<>>) =>
       \A filtered \in show.filtered :
          filtered = KeptTraces(show.traces_raw, show.patterns)

\* C20: when a --filter pattern matches no attribute key of the fetched
\* snapshot (a snapshot that holds traces), the command warns and prints the
\* traces of the snapshot as they are, as a run without --filter does.
C20_UnmatchedFilterUnfiltered ==
    \A out \in show.out :
       (show.traces_raw # <<>> /\ \E i \in DOMAIN show.patterns :
           \A key \in _collect_attr_keys(show.traces_raw) :
              ~Glob(key, show.patterns[i]))
          => /\ out.error = ""
             /\ out.warning
             /\ out.traces = _run_trace_show(show.traces_raw, <<>>, show.where,
                                             show.since, show.now).traces

(***************************************************************************)
(* Properties of the resolution of groups and of merges.                   *)
(***************************************************************************)
\* C27: every incoming span is routed by priority: to the group of its
\* parent when span_to_group knows the parent (even when the span itself is
\* awaited or its wire id names another group); otherwise to the group that
\* awaits it in parent_to_group, whose entry is removed; otherwise to the
\* group keyed by its wire trace id.  A span with an id that is not skipped
\* as a duplicate is indexed under that group, which is in the store.
C27_ResolutionPriority ==
    [][Called =>
        LET span == last'.span
            S == span.spanId
            P == span.parentSpanId
            byParent == P # "" /\ P \in DOMAIN store.span_to_group
            byChild == S # "" /\ S \in DOMAIN store.parent_to_group
            target == IF byParent THEN store.span_to_group[P]
                      ELSE IF byChild THEN store.parent_to_group[S]
                      ELSE span.traceId
        IN /\ last'.group_key = target
           /\ target \in Keys(store'.traces)
           /\ (~byParent /\ byChild) => S \notin DOMAIN store'.parent_to_group
           /\ (S # "" /\ ~last'.dedup) =>
                 (S \in DOMAIN store'.span_to_group
                    /\ store'.span_to_group[S] = target)]_vars
\* the last span joined the group of its resident parent although a child
\* with the same wire id had arrived earlier and awaited it in the group of
\* that wire id (the child is now retained in the parent's group too)
C27_Witness ==
    /\ \E x \in Retained(store) :
          /\ x.parentSpanId = last.span.spanId /\ x.traceId = last.span.traceId
          /\ SameGroup(store, x, last.span)
    /\ last.span.parentSpanId \in DOMAIN store.span_to_group
    /\ last.span.spanId # "" /\ ~last.dedup /\ ~last.created
    /\ store.span_to_group[last.span.parentSpanId] = last.group_key
    /\ last.group_key # last.span.traceId
    /\ last.span \in Retained(store)

\* C28: inserting a span whose parent P is already a key of parent_to_group
\* leaves the entry of P as the earlier child made it (stated for calls in
\* which no group leaves the store, so that no merge repoints the entry).
C28_AwaitedParentNotOverwritten ==
    [][(Called /\ ~last'.dedup
          /\ last'.span.parentSpanId \in DOMAIN store.parent_to_group
          /\ Keys(store.traces) \subseteq Keys(store'.traces))
        => (last'.span.parentSpanId \in DOMAIN store'.parent_to_group
              /\ store'.parent_to_group[last'.span.parentSpanId]
                    = store.parent_to_group[last'.span.parentSpanId])]_vars

\* the groups a call merged into its target: those that left the store
\* without being evicted
Merged(st, post, call) == (Keys(st.traces) \ Keys(post.traces)) \ call.evicted
\* the number of times the group under key k retains the span dict x
CopiesIn(st, k, x) ==
    Cardinality({j \in DOMAIN SpansOf(st, k) : SpansOf(st, k)[j] = x})

\* C29: when a call merges group G into its target, every span G retained
\* is retained once in the target afterwards, every span_to_group entry and
\* every parent_to_group entry (the one popped for the arriving span aside)
\* that pointed at G points at the target, and G is no group of the store.
C29_MergeLosesNothing ==
    [][Called =>
        \A G \in Merged(store, store', last') :
           LET target == last'.group_key
           IN /\ G \notin Keys(store'.traces)
              /\ target \in Keys(store'.traces)
              /\ \A j \in DOMAIN SpansOf(store, G) :
                    CopiesIn(store', target, SpansOf(store, G)[j]) = 1
              /\ \A sid \in DOMAIN store.span_to_group :
                    store.span_to_group[sid] = G =>
                       (sid \in DOMAIN store'.span_to_group
                          /\ store'.span_to_group[sid] = target)
              /\ \A pid \in DOMAIN store.parent_to_group \ {last'.span.spanId} :
                    store.parent_to_group[pid] = G =>
                       (pid \in DOMAIN store'.parent_to_group
                          /\ store'.parent_to_group[pid] = target)]_vars

\* C30: every span with an id that a group g retains is mapped to g by
\* span_to_group (so no span id is retained in two groups).
C30_RetainedSpansIndexed ==
    \A g \in Keys(store.traces) :
       \A j \in DOMAIN SpansOf(store, g) :
          SpansOf(store, g)[j].spanId # "" =>
             /\ SpansOf(store, g)[j].spanId \in DOMAIN store.span_to_group
             /\ store.span_to_group[SpansOf(store, g)[j].spanId] = g

(***************************************************************************)
(* Properties of the show command.                                         *)
(***************************************************************************)
AllZeros(text) == \A i \in DOMAIN text : text[i] = "0"
Hexadecimal(text) == \A i \in DOMAIN text : text[i] \in hexdigits
TargetMessages ==
    {"Short trace ID must be 8 hex characters.",
     "Trace ID must be 32 hex characters.",
     "Trace ID must be 8 or 32 hex characters."}

\* C21: a target other than last/any is accepted only if it is 8 or 32
\* hexadecimal characters and not all zeros; any other target is rejected
\* with a validation error (one of the trace-id messages unless the limit
\* or --list is rejected first) before anything is fetched or printed.
C21_TargetValidation ==
    \A out \in show.out :
       \A t \in show.target \ {TargetLast, TargetAny} :
          LET valid == Len(t) \in {8, 32} /\ Hexadecimal(t) /\ ~AllZeros(t)
          IN /\ out.error = "" => valid
             /\ ~valid =>
                   /\ out.error # "" /\ ~out.fetched
                   /\ out.items = <<>> /\ out.selected = <<>>
                   /\ (~show.list_only /\ \A n \in show.limit : n >= 0)
                        => out.error \in TargetMessages
\* the all-zero short id was rejected, with a snapshot that holds traces
C21_Witness ==
    /\ show.target = {Chars(8, "0")} /\ show.traces_raw # <<>>
    /\ \E out \in show.out :
          out.error = "Short trace ID must be 8 hex characters."

\* C22: a valid 8-character target selects exactly the filtered traces whose
\* key starts with it, letter case ignored, and a valid 32-character target
\* exactly those whose key equals it; --json without --limit prints them.
C22_TargetSelection ==
    \A out \in show.out :
       \A t \in show.target \ {TargetLast, TargetAny} :
          LET StartsWithIt(tr) == lower(Take(tr.trace_id, 8)) = lower(t)
              EqualsIt(tr) == tr.trace_id = t
          IN out.error = "" =>
               /\ Len(t) = 8 => out.selected = SelectSeq(out.filtered, StartsWithIt)
               /\ Len(t) = 32 => out.selected = SelectSeq(out.filtered, EqualsIt)
               /\ (show.json_out /\ show.limit = {}) => out.items = out.selected
\* an upper-case short id selected the two traces whose keys start with it
C22_Witness ==
    /\ show.target = {Upper8} /\ show.json_out /\ show.limit = {}
    /\ Len(show.traces_raw) = 3
    /\ \E out \in show.out : Len(out.items) = 2

\* s is a subsequence of t
RECURSIVE Subsequence(_, _)
Subsequence(s, t) ==
    IF s = <<>> THEN TRUE
    ELSE IF t = <<>> THEN FALSE
    ELSE IF Head(s) = Head(t) THEN Subsequence(Tail(s), Tail(t))
    ELSE Subsequence(s, Tail(t))

\* C23: the filtered traces are a subsequence of the snapshot, and with
\* --limit L the output shows the first L of the selected traces (their
\* ids in list mode; the tree view shows the first of them), whatever the
\* mode and the form of the output.
C23_OrderAndLimit ==
    \A out \in show.out :
       out.error = "" =>
          /\ Subsequence(TraceIds(out.filtered), TraceIds(show.traces_raw))
          /\ \A L \in show.limit :
                LET first == Take(out.selected, L)
                IN /\ Len(out.items) <= L
                   /\ CASE out.kind = "json traces" -> out.items = first
                        [] out.kind = "json trace_ids" -> out.items = TraceIds(first)
                        [] out.kind = "Trace IDs" -> out.items = ShortIds(first)
                        [] out.kind = "select" -> out.items = first
                        [] out.kind = "tree" -> out.items = Take(first, 1)
                        [] OTHER -> first = <<>>

\* C24: with no target and none of --list, --since, --limit the command
\* shows the first of the filtered traces and nothing else; with target any
\* it selects all filtered traces, which --json without --limit prints.
C24_DefaultTarget ==
    \A out \in show.out :
       /\ (show.target = {} /\ ~show.list_only /\ show.since = <<>>
             /\ show.limit = {})
            => /\ out.error = ""
               /\ out.selected = Take(out.filtered, 1)
               /\ out.items = out.selected
       /\ (show.target = {TargetAny} /\ out.error = "")
            => /\ out.selected = out.filtered
               /\ (show.json_out /\ show.limit = {})
                    => out.items = IF show.list_only
                                   THEN TraceIds(out.filtered)
                                   ELSE out.filtered
\* without any selector the first of three traces was shown
C24_Witness ==
    /\ show.target = {} /\ ~show.list_only /\ show.since = <<>>
    /\ show.limit = {} /\ Len(show.traces_raw) = 3
    /\ \E out \in show.out : out.items = <<show.traces_raw[1]>>

\* the strings that are no time window: unknown unit, missing unit,
\* quantity that is no integer, shorter than two characters
UnparsableSince == {<<"1", "s">>, <<"1", "0">>, <<"x", "h">>, <<"h">>}

\* C25: a run with an unparsable --since does not fail and gives what the
\* same run gives without --since, for _filter_traces and for the command.
C25_UnparsableWindowIgnored ==
    show.since \in UnparsableSince =>
       /\ \A filtered \in show.filtered :
             filtered = _filter_traces(show.traces_raw, show.patterns,
                                       show.where, {}, show.now)
       /\ \A out \in show.out : out = trace_show([show EXCEPT !.since = <<>>])

(***************************************************************************)
(* Properties of the listener.                                             *)
(***************************************************************************)
\* C26: when the listener cannot acquire its port, starting the trace
\* server fails with TraceListenerBindError, whose message says the port is
\* already in use, and no server is running.
C26_BindFailureDistinct ==
    listener.bind_failed =>
       /\ listener.raised.kind = "TraceListenerBindError"
       /\ listener.raised.message = "already in use"
       /\ listener.server = "none"

(***************************************************************************)
(* Invariants of the groups and of the two indexes.                        *)
(***************************************************************************)
\* C31: the key of every group is the wire trace id of the first span
\* placed in it (the first span of its sequence), whatever was merged into
\* the group or evicted before.
C31_KeyIsCreatorsWireId ==
    \A g \in Keys(store.traces) :
       SpansOf(store, g) # <<>> /\ SpansOf(store, g)[1].traceId = g

\* C32: within a group no span id occurs twice in the retained sequence,
\* and the id of every retained span is in the group's seen set.
C32_NoDuplicateInGroup ==
    \A g \in Keys(store.traces) :
       /\ \A i, j \in DOMAIN SpansOf(store, g) :
             (i # j /\ SpansOf(store, g)[i].spanId # "")
                => SpansOf(store, g)[i].spanId # SpansOf(store, g)[j].spanId
       /\ \A i \in DOMAIN SpansOf(store, g) :
             SpansOf(store, g)[i].spanId # ""
                => SpansOf(store, g)[i].spanId \in store.seen_spans[g]
\* the last call was skipped as a duplicate and its group is full of spans
\* with different ids
C32_Witness ==
    /\ last.dedup /\ last.group_key \in Keys(store.traces)
    /\ Len(SpansOf(store, last.group_key)) = MAX_SPANS_PER_TRACE
    /\ last.span \in Retained(store)

\* C33: a call whose span is skipped as a duplicate leaves every group's
\* span sequence and seen set and both indexes as they were.
C33_DuplicateChangesNothing ==
    [][(Called /\ last'.dedup) =>
          /\ Keys(store'.traces) = Keys(store.traces)
          /\ \A g \in Keys(store.traces) : SpansOf(store', g) = SpansOf(store, g)
          /\ store'.seen_spans = store.seen_spans
          /\ store'.span_to_group = store.span_to_group
          /\ store'.parent_to_group = store.parent_to_group]_vars

\* C37: two spans that a group retains together are retained together by
\* some group after every call that leaves both retained.
C37_GroupsOnlyUnion ==
    [][\A x, y \in Retained(store) :
          (SameGroup(store, x, y) /\ x \in Retained(store')
             /\ y \in Retained(store'))
          => SameGroup(store', x, y)]_vars

\* C39: no span id is a key of span_to_group and of parent_to_group at the
\* same time.
C39_IndexesDisjoint ==
    DOMAIN store.span_to_group \cap DOMAIN store.parent_to_group = {}

(***************************************************************************)
(* --where and --filter together.                                          *)
(***************************************************************************)
\* the trace ids of a list of traces, as a set
IdSet(traces) == {traces[i].trace_id : i \in DOMAIN traces}

\* C36: the traces selected by the --where pairs do not depend on the
\* --filter patterns: _filter_traces and the command return traces with the
\* same ids as they do without patterns.
C36_WhereIndependentOfFilter ==
    /\ \A filtered \in show.filtered :
          IdSet(filtered)
             = IdSet(_filter_traces(show.traces_raw, <<>>, show.where,
                                    _parse_since_seconds(show.since), show.now))
    /\ \A out \in show.out :
          out.error = "" =>
             IdSet(out.traces)
                = IdSet(_run_trace_show(show.traces_raw, <<>>, show.where,
                                        show.since, show.now).traces)

(***************************************************************************)
(* The lock of the store.                                                  *)
(***************************************************************************)
\* the threads inside `with self._lock:` of merge_spans or snapshot
InCritical == {t \in Exporters \cup {Querier} : pc[t] = "locked"}

\* C34: at most one thread is inside the critical section of merge_spans or
\* snapshot, and it is the holder of the lock; the store changes only in a
\* step of the thread inside the critical section, and every change is one
\* whole merge_spans call, for one of the spans sent so far, applied to the
\* store the previous calls left, so the store is at every instant the
\* result of the calls made so far, one after the other in the order in
\* which they held the lock.
C34_MutexSerializable ==
    /\ [](/\ Cardinality(InCritical) <= 1
          /\ \A t \in Exporters \cup {Querier} : (lock = t) <=> (t \in InCritical))
    /\ [][store' # store =>
            \E t \in Exporters : \E sid \in DOMAIN known' :
               /\ InCritical = {t} /\ lock = t /\ lock' = Free
               /\ ncalls' = ncalls + 1
               /\ store' = MergeOne(store, known'[sid].traceId, known'[sid])]_vars
\* one Export thread is inside merge_spans while the other Export thread and
\* the query thread both wait for the lock, after an earlier call
C34_Witness ==
    /\ \E t \in Exporters :
          /\ lock = t
          /\ \E u \in Exporters \ {t} : pc[u] = "next" /\ sent[u] < MaxBatch
    /\ pc[Querier] = "idle"
    /\ ncalls >= 1

\* C35: under a fair scheduler the thread that holds the lock releases it,
\* every thread that waits for the lock gets it, and every Export and query
\* call returns: in the end all calls are done and the lock is free.
C35_EveryCallCompletes ==
    /\ \A t \in Exporters \cup {Querier} : (lock = t) ~> (lock # t)
    /\ \A t \in Exporters :
          (pc[t] = "next" /\ sent[t] < MaxBatch) ~> (lock = t)
    /\ (pc[Querier] = "idle") ~> (lock = Querier)
    /\ <>[](/\ lock = Free
            /\ \A t \in Exporters \cup {Querier} : pc[t] = "done"
            /\ \A t \in Exporters : sent[t] = MaxBatch)
\* every call has returned after the query thread took its copy between the
\* merge_spans calls of the Export threads
C35_Witness ==
    /\ lock = Free
    /\ \A t \in Exporters \cup {Querier} : pc[t] = "done"
    /\ \A t \in Exporters : sent[t] = MaxBatch
    /\ \E t \in Exporters : progress[t] \in 1..(MaxBatch - 1)

====
